---------------------------- MODULE Spec2Model ----------------------------
(***************************************************************************)
(* The job lifecycle engine of the Meister ProPR testbed backend           *)
(* (testbed/backend.ts and its plain-HTTP JavaScript twin): the in-memory  *)
(* job store, the two one-shot timers armed per job, and the HTTP router.  *)
(*                                                                         *)
(* JavaScript runs every callback to completion on one thread, so each     *)
(* timer callback and each synchronous stretch of handleRequest is one     *)
(* action.  handleRequest suspends only at `await readBody(req)`: a POST   *)
(* that passed checkAuth waits in `reading` until its body has arrived.    *)
(*                                                                         *)
(* Timers follow the Node.js setTimeout contract: a delay that is not in   *)
(* 1 .. 2147483647 (or is NaN) is set to 1, a fractional delay is          *)
(* truncated, a callback never runs before its delay has elapsed, and      *)
(* armed timers run in the order of their due time, timers of equal        *)
(* duration in the order they were armed.                                  *)
(*                                                                         *)
(* Encodings.  A nullable field is <<>> (null) or <<v>>.  A JSON value is  *)
(* written as its JSON text ("null", "0", "7") and an absent property as   *)
(* "undefined".  A JavaScript number n is held as [hi, ms, frac] with      *)
(* n = hi * 2^31 + ms + frac/100, so that values beyond 2^31 - 1 and the   *)
(* fractions produced by `* 0.33` are both exact.                          *)
(***************************************************************************)
EXTENDS Integers, Sequences, FiniteSets, TLC

VARIABLES
    DELAY_MS,    \* configuration: total delay, a number (backend.ts:44)
    SIMULATE,    \* configuration: simulated outcome (backend.ts:43)
    jobs,        \* the job store: a Map, held as its entries in insertion order
    timers,      \* armed one-shot timers, in the order they were armed
    now,         \* the clock, in ms since the process started
    uuidsDrawn,  \* the identities crypto.randomUUID has returned so far
    reading,     \* POST requests suspended in `await readBody(req)`
    request,     \* the request whose handler is running (NoRequest when none is)
    response,    \* the response that handler has sent (NoResponse when none)
    accepted,    \* the jobIds carried by the 202 responses so far, in order
    ran,         \* per jobId: the timer callbacks that have run, in order
    alive,       \* FALSE once an unhandled rejection has ended the process
    HTTP_ONLY,   \* configuration: plain HTTP, no certificate (backend.ts:45)
    phase,       \* "starting", "created" (createServer has returned), "listening",
                 \* "failed" (the process ended before it listened)
    today,       \* Date.now() in days, as loadOrGenerateCert reads it
    certFile,    \* localhost-cert.pem on disk
    keyFile,     \* localhost-key.pem on disk
    served,      \* the pair given to https.createServer (Null before, and for HTTP)
    material,    \* which generate call the content of each file and of the
                 \* returned pair comes from, and whether this run of the
                 \* process has called loadOrGenerateCert
    client,      \* the review page's pollReview call (review.ts)
    page         \* the review page's pull-request autocomplete (review.ts)

\* The certificate manager's part of the state
certVars == << HTTP_ONLY, phase, today, certFile, keyFile, served, material >>

serverVars == << DELAY_MS, SIMULATE, jobs, timers, now, uuidsDrawn, reading,
                 request, response, accepted, ran, alive >>

\* The extension's review page
extensionVars == << client, page >>

vars == << DELAY_MS, SIMULATE, jobs, timers, now, uuidsDrawn, reading,
           request, response, accepted, ran, alive, certVars, extensionVars >>

---------------------------------------------------------------------------
(* Bounds of the model *)

MaxJobs == 2

MaxTime == 1

MaxReading == 1

\* selfsigned.generate is called at most this often
MaxGenerations == 2

\* The milliseconds the status requests of one pollReview call take in all
MaxLag == 1

\* The getPullRequests calls of the review page that are in flight together
MaxFetches == 2

---------------------------------------------------------------------------
(* Configuration *)

CLIENT_KEY == "test-client-key"

Num(n) == [hi |-> 0, ms |-> n, frac |-> 0]

\* 3000000000 = 2^31 + 852516352
ThreeBillion == [hi |-> 1, ms |-> 852516352, frac |-> 0]

DelayChoices ==
    {Num(-5), Num(0), Num(1), Num(6000), ThreeBillion}

\* process.env.SIMULATE is any string; only the exact text 'fail' is looked for
SimulateChoices == {"success", "fail", "FAIL"}

\* The configurations the process is started with.  The mode is read only
\* by the second callback and the delay only by scheduleJob: every delay is
\* run in the default mode, and every mode with a delay of each kind.
Configurations ==
    (DelayChoices \X {"success"})
    \cup ({Num(6000), ThreeBillion} \X {"fail"})
    \cup {<< Num(6000), "FAIL" >>}

\* Identities.  The code never looks inside one, so runs that differ only in
\* which fresh identity each job was given are the same run up to renaming:
\* the model hands them out in this order.
UUIDList == << "u1", "u2", "u3" >>

UUIDs == {UUIDList[i] : i \in 1..Len(UUIDList)}

Null == << >>

Some(v) == << v >>

MOCK_SUCCESS_RESULT ==
    [summary  |-> "Overall this PR is well-structured and the intent is clear.",
     comments |-> << [filePath |-> Some("src/auth/login.ts"), lineNumber |-> Some(42), severity |-> "error"],
                     [filePath |-> Some("src/auth/login.ts"), lineNumber |-> Some(67), severity |-> "warning"],
                     [filePath |-> Some("src/components/UserProfile.tsx"), lineNumber |-> Some(15), severity |-> "suggestion"],
                     [filePath |-> Some("src/utils/formatDate.ts"), lineNumber |-> Null, severity |-> "suggestion"],
                     [filePath |-> Null, lineNumber |-> Null, severity |-> "info"] >>]

MOCK_FAIL_ERROR == "The AI agent could not complete the review"

---------------------------------------------------------------------------
(* Date.prototype.toISOString and String.prototype.localeCompare *)

\* The date and hour are the same for every instant of the model, so the
\* part of "YYYY-MM-DDTHH:mm:ss.sssZ" that varies is mm:ss.sss, held as its
\* seven digits.
toISOString(t) ==
    LET mm == (t \div 60000) % 60
        ss == (t \div 1000) % 60
        ms == t % 1000
    IN  << mm \div 10, mm % 10, ss \div 10, ss % 10,
           ms \div 100, (ms \div 10) % 10, ms % 10 >>

RECURSIVE CompareFrom(_, _, _)
CompareFrom(a, b, i) ==
    IF i > Len(a) /\ i > Len(b) THEN 0
    ELSE IF i > Len(a) THEN -1
    ELSE IF i > Len(b) THEN 1
    ELSE IF a[i] < b[i] THEN -1
    ELSE IF a[i] > b[i] THEN 1
    ELSE CompareFrom(a, b, i + 1)

\* a comparison with its operands exchanged
localeCompareExchanged(a, b) == CompareFrom(b, a, 1)

localeCompare(a, b) == CompareFrom(a, b, 1)

---------------------------------------------------------------------------
(* The certificate manager *)

RENEW_BEFORE_DAYS == 30

\* selfsigned.generate(..., {days: 365, ...})
CertDays == 365

\* The instants, in days, the model looks at: the first start, the last day
\* a pair generated at the first start is reused, the first day it is not,
\* and a day on which it has expired
DayChoices == {0, 334, 335, 366}

\* localhost-cert.pem: no such file, a file that cannot be read, a file
\* that is no certificate, or a certificate with its validTo in days
CertFiles ==
    { [kind |-> "missing", validTo |-> 0],
      [kind |-> "unreadable", validTo |-> 0],
      [kind |-> "garbage", validTo |-> 0] }
    \cup
    { [kind |-> "pem", validTo |-> d] :
        d \in {-1, RENEW_BEFORE_DAYS - 1, RENEW_BEFORE_DAYS, RENEW_BEFORE_DAYS + 1, CertDays} }

\* localhost-key.pem: no such file, a file that cannot be read, a file
KeyFiles == {"missing", "unreadable", "present"}

existsSync(kind) == kind # "missing"

\* fs.readFileSync and new X509Certificate in the try block: one of them
\* throws unless the file can be read and holds a certificate
CertParses(file) == file.kind = "pem"

\* a renewal test that lets the boundary through
StillValidInclusive(validTo, t) == validTo >= t + RENEW_BEFORE_DAYS

\* validTo > renewAfter, with renewAfter = now + RENEW_BEFORE_DAYS days
StillValid(validTo, t) == validTo > t + RENEW_BEFORE_DAYS

\* loadOrGenerateCert: the pair it returns and the files it leaves.  The
\* key is read inside the same try block, after the validity test: a key
\* that cannot be read sends the function on to generate a pair.
loadOrGenerateCert ==
    IF /\ existsSync(certFile.kind) /\ existsSync(keyFile)
       /\ CertParses(certFile)
       /\ StillValid(certFile.validTo, today)
       /\ keyFile = "present"
    THEN [pair     |-> [validTo |-> certFile.validTo, generated |-> FALSE],
          certFile |-> certFile,
          keyFile  |-> keyFile]
    ELSE [pair     |-> [validTo |-> today + CertDays, generated |-> TRUE],
          certFile |-> [kind |-> "pem", validTo |-> today + CertDays],
          keyFile  |-> "present"]

\* The number of the next call of selfsigned.generate: the calls are
\* numbered, and the files on disk at the first start hold call 0
NewGeneration ==
    (IF material.certGen > material.keyGen THEN material.certGen
     ELSE material.keyGen) + 1

\* What loadOrGenerateCert returns and leaves on disk, by generate call
AfterLoadOrGenerate ==
    IF loadOrGenerateCert.pair.generated
    THEN [certGen |-> NewGeneration, keyGen |-> NewGeneration,
          returned |-> << [cert |-> NewGeneration, key |-> NewGeneration] >>,
          managerRan |-> TRUE]
    ELSE [material EXCEPT
            !.returned = << [cert |-> material.certGen, key |-> material.keyGen] >>,
            !.managerRan = TRUE]

---------------------------------------------------------------------------
(* JSON.parse and JSON.stringify, on the values of a body's properties *)

\* JSON.parse of the text of a value.  A value is held as its JSON text;
\* a number literal beyond the range of a double parses to Infinity, which
\* has no JSON text and is held as "Infinity".
JSONParse(text) == IF text = "1e999" THEN "Infinity" ELSE text

\* JSON.stringify of a value, as a property of an object: a number that is
\* not finite is written as null
JSONStringify(v) == IF v = "Infinity" THEN "null" ELSE v

---------------------------------------------------------------------------
(* The job store *)

JobIds == {jobs[i].jobId : i \in 1..Len(jobs)}

HasJob(jobId) == jobId \in JobIds

\* jobs.get(jobId), for a jobId the store holds
JobAt(jobId) == CHOOSE i \in 1..Len(jobs) : jobs[i].jobId = jobId

GetJob(jobId) == jobs[JobAt(jobId)]

\* a store that keeps only the newest job
MapSetReplacing(m, job) == << job >>

\* a store whose insert resets the records it holds
MapSetResetting(m, job) ==
    Append([i \in 1..Len(m) |-> [m[i] EXCEPT !.status = "pending"]], job)

\* jobs.set(jobId, job): a Map keeps an existing key at its place and
\* appends a new one
MapSet(m, job) ==
    IF \E i \in 1..Len(m) : m[i].jobId = job.jobId
    THEN [i \in 1..Len(m) |-> IF m[i].jobId = job.jobId THEN job ELSE m[i]]
    ELSE Append(m, job)

---------------------------------------------------------------------------
(* Numbers *)

\* a < b, for numbers in the form [hi, ms, frac]
Less(a, b) ==
    \/ a.hi < b.hi
    \/ a.hi = b.hi /\ a.ms < b.ms
    \/ a.hi = b.hi /\ a.ms = b.ms /\ a.frac < b.frac

MathMin(a, b) == IF Less(b, a) THEN b ELSE a

\* a factor of 1 in place of 0.33
TimesOne(n) == n

\* n * 0.33, exactly: with ms = 100 q + r, 0.33 ms = 33 q + 33 r / 100,
\* and 0.33 * 2^31 = 708669603.84
Times033(n) ==
    LET q == n.ms \div 100
        r == n.ms % 100
        c == 33 * r + (IF n.hi > 0 THEN 84 ELSE 0)
    IN  [hi   |-> 0,
         ms   |-> (IF n.hi > 0 THEN 708669603 ELSE 0) + 33 * q + c \div 100,
         frac |-> c % 100]

---------------------------------------------------------------------------
(* Timers *)

\* setTimeout without the lower clamp: a delay of 0 stays 0
TimerDelayUnclamped(after) ==
    IF after.hi = 0 /\ after.ms >= 0 THEN after.ms ELSE 1

\* The duration setTimeout(callback, after) arms the timer with:
\*   if (!(after >= 1 && after <= TIMEOUT_MAX)) after = 1;  TIMEOUT_MAX = 2^31 - 1
\* and the duration is truncated to whole milliseconds.  A number with
\* hi = 0 is at most 2^31 - 1 and one with hi > 0 is larger.
TimerDelay(after) ==
    IF after.hi = 0 /\ after.ms >= 1 THEN after.ms ELSE 1

\* const processingDelay = Math.min(2000, DELAY_MS * 0.33)
processingDelay == MathMin(Num(2000), Times033(DELAY_MS))

Timer(jobId, cb, after) ==
    [jobId |-> jobId, cb |-> cb,
     msecs |-> TimerDelay(after), due |-> now + TimerDelay(after)]

\* scheduleJob without its second timer
scheduleJobProcessingOnly(jobId) ==
    << Timer(jobId, "processing", processingDelay) >>

\* scheduleJob arming its first timer a second time
scheduleJobRearming(jobId) ==
    << Timer(jobId, "processing", processingDelay),
       Timer(jobId, "terminal", DELAY_MS),
       Timer(jobId, "processing", processingDelay) >>

\* The timers scheduleJob arms, in the order it arms them
scheduleJob(jobId) ==
    << Timer(jobId, "processing", processingDelay),
       Timer(jobId, "terminal", DELAY_MS) >>

\* Timer j runs before timer i: it is due earlier, or both are due together
\* and have the same duration (one timer list) and j was armed first.
RunsBefore(j, i) ==
    \/ timers[j].due < timers[i].due
    \/ /\ timers[j].due = timers[i].due
       /\ timers[j].msecs = timers[i].msecs
       /\ j < i

CanRun(i) ==
    /\ timers[i].due <= now
    /\ \A j \in 1..Len(timers) : j # i => ~RunsBefore(j, i)

Remove(s, i) == SubSeq(s, 1, i - 1) \o SubSeq(s, i + 1, Len(s))

\* a first callback that starts the record over
ProcessingCallbackClearing(job) ==
    [job EXCEPT !.status = "processing", !.completedAt = Null]

\* The first callback of scheduleJob: if (job) job.status = 'processing'
ProcessingCallback(job) == [job EXCEPT !.status = "processing"]

\* a second callback that reads the mode without regard to case
TerminalCallbackAnyCase(job, t) ==
    IF SIMULATE \in {"fail", "FAIL"}
    THEN [job EXCEPT !.status = "failed",
                     !.error = Some(MOCK_FAIL_ERROR),
                     !.completedAt = Some(toISOString(t))]
    ELSE [job EXCEPT !.status = "completed",
                     !.result = Some(MOCK_SUCCESS_RESULT),
                     !.completedAt = Some(toISOString(t))]

\* The second callback of scheduleJob, run at time t
TerminalCallback(job, t) ==
    IF SIMULATE = "fail"
    THEN [job EXCEPT !.status = "failed",
                     !.error = Some(MOCK_FAIL_ERROR),
                     !.completedAt = Some(toISOString(t))]
    ELSE [job EXCEPT !.status = "completed",
                     !.result = Some(MOCK_SUCCESS_RESULT),
                     !.completedAt = Some(toISOString(t))]

\* a callback that writes to the record stored last, not to its own
AfterCallbackOnLatest(tm) ==
    IF jobs = << >> THEN jobs
    ELSE [jobs EXCEPT ![Len(jobs)] =
            IF tm.cb = "processing" THEN ProcessingCallback(@)
            ELSE TerminalCallback(@, now)]

\* What a callback leaves of the store
AfterCallback(tm) ==
    IF ~HasJob(tm.jobId) THEN jobs
    ELSE [jobs EXCEPT ![JobAt(tm.jobId)] =
            IF tm.cb = "processing" THEN ProcessingCallback(@)
            ELSE TerminalCallback(@, now)]

NoRequest == [method |-> "", path |-> << >>, key |-> << >>, origin |-> << >>,
              body |-> [kind |-> "none", fields |-> << >>]]

\* No response: `cors` holds the CORS headers of a response that was sent
NoResponse == [status |-> 0, error |-> "", detail |-> << >>,
               jobId |-> "", job |-> << >>, list |-> << >>, cors |-> << >>]

\* No callback is running: the event loop picks the next one
Idle == alive /\ phase = "listening" /\ request = NoRequest

\* A timer callback runs
FireTimer ==
    \E i \in 1..Len(timers) :
        /\ Idle
        /\ CanRun(i)
        /\ jobs' = AfterCallback(timers[i])
        /\ timers' = Remove(timers, i)
        /\ ran' = [ran EXCEPT ![timers[i].jobId] = Append(@, timers[i].cb)]
        /\ UNCHANGED << certVars, extensionVars, DELAY_MS, SIMULATE, now, uuidsDrawn, reading,
                        request, response, accepted, alive >>

\* One millisecond passes (the model follows the clock tick by tick up
\* to MaxTime, and from one due time to the next after that)
Tick ==
    /\ Idle
    /\ now < MaxTime
    /\ now' = now + 1
    /\ UNCHANGED << certVars, extensionVars, DELAY_MS, SIMULATE, jobs, timers, uuidsDrawn, reading,
                    request, response, accepted, ran, alive >>

\* Nothing happens until the next timer is due
Sleep ==
    /\ Idle
    /\ \E i \in 1..Len(timers) :
         /\ timers[i].due > now
         /\ \A j \in 1..Len(timers) :
              timers[j].due > now => timers[i].due <= timers[j].due
         /\ now' = timers[i].due
    /\ UNCHANGED << certVars, extensionVars, DELAY_MS, SIMULATE, jobs, timers, uuidsDrawn,
                    reading, request, response, accepted, ran, alive >>

---------------------------------------------------------------------------
(* Requests *)

required ==
    << "organizationUrl", "projectId", "repositoryId", "pullRequestId", "iterationId" >>

Fields == {required[i] : i \in 1..Len(required)}

\* The fields of a submission that passes validation, as their JSON texts:
\* every one is present and non-null, two of them with a falsy value ("" and
\* 0) and one a number literal no double can hold
SubmittedFields ==
    [organizationUrl |-> "\"https://dev.azure.com/acme/\"", projectId |-> "\"p1\"",
     repositoryId |-> "\"\"", pullRequestId |-> "0", iterationId |-> "1e999"]

NoFields == [k \in Fields |-> "undefined"]

\* The request bodies the clients of the model send: the text of a JSON
\* object with these properties, text that is not JSON (the empty body is
\* one), the JSON text `null`, and a body whose stream fails before its end.
Bodies ==
    { [kind |-> "object", fields |-> SubmittedFields],
      [kind |-> "object", fields |-> [SubmittedFields EXCEPT !.pullRequestId = "undefined"]],
      [kind |-> "object", fields |-> [SubmittedFields EXCEPT !.organizationUrl = "undefined",
                                                             !.projectId = "false",
                                                             !.iterationId = "null"]],
      [kind |-> "malformed", fields |-> NoFields],
      [kind |-> "null", fields |-> NoFields],
      [kind |-> "error", fields |-> NoFields] }

Methods == {"GET", "POST", "OPTIONS"}

\* req.url, as the segments between its slashes: /reviews is << "reviews" >>,
\* /reviews/ is << "reviews", "" >> and // is << "", "" >>
Paths == { << "reviews" >>, << "other" >> } \cup { << "reviews", u >> : u \in UUIDs }

\* The X-Client-Key header: absent, the configured key, another key
KeyHeaders == { Null, Some(CLIENT_KEY), Some("wrong-key") }

\* The Origin header: absent, an origin of the allow-list, another origin,
\* a localhost origin of the allow-list
Origins == { Null, Some("https://dev.azure.com"), Some("https://evil.example"),
             Some("http://localhost:8080") }

\* The body of a request whose handler has not read it
Unread == [kind |-> "unread", fields |-> NoFields]

Req(m, p, k, o) == [method |-> m, path |-> p, key |-> k, origin |-> o, body |-> Unread]

\* Requests as handleRequest receives them: the request line and headers.
\* For GET the two keyed routes with every key header and every path with
\* the key; POST /reviews with every key header; for POST and OPTIONS one
\* path of each shape, with or without the key; then another method, paths that match no route, a request target
\* the URL parser does not accept, and requests that carry an Origin.
Requests ==
    { Req("GET", p, k, Null) :
        p \in { << "reviews" >>, << "reviews", UUIDList[1] >> }, k \in KeyHeaders }
    \cup
    { Req("GET", << "other" >>, Null, Null) }
    \cup
    { Req("GET", p, Some(CLIENT_KEY), Null) : p \in Paths }
    \cup
    { Req("POST", << "reviews" >>, Null, Null),
      Req("POST", << "reviews" >>, Some(CLIENT_KEY), Some("https://dev.azure.com")),
      Req("POST", << "reviews" >>, Some("wrong-key"), Some("https://evil.example")) }
    \cup
    { Req("POST", << "reviews", UUIDList[1] >>, Some(CLIENT_KEY), Null),
      Req("POST", << "other" >>, Null, Null),
      Req("OPTIONS", << "reviews" >>, Null, Null),
      Req("OPTIONS", << "reviews", UUIDList[1] >>, Some(CLIENT_KEY), Null),
      Req("OPTIONS", << "other" >>, Null, Null) }
    \cup
    { Req("DELETE", << "reviews", UUIDList[1] >>, Some(CLIENT_KEY), Null),
      Req("GET", << "reviews", "" >>, Some(CLIENT_KEY), Null),
      Req("GET", << "reviews", UUIDList[1], "x" >>, Some(CLIENT_KEY), Null),
      Req("GET", << "", "" >>, Null, Null),
      Req("OPTIONS", << "", "" >>, Null, Null) }
    \cup
    { Req("OPTIONS", << "reviews" >>, Some(CLIENT_KEY), o) : o \in Origins \ {Null} }
    \cup
    { Req("GET", << "reviews" >>, Some(CLIENT_KEY), Some("https://evil.example")) }

---------------------------------------------------------------------------
(* Request helpers *)

\* a readBody that has no value for a body that does not parse
readBodyStrict(raw) ==
    IF raw.kind = "object"
    THEN [null |-> FALSE, fields |-> [k \in Fields |-> JSONParse(raw.fields[k])]]
    ELSE [null |-> TRUE, fields |-> NoFields]

\* readBody: JSON.parse of the body text, {} when it does not parse.  The
\* value is an object with these properties, or null.
readBody(raw) ==
    IF raw.kind = "object"
    THEN [null |-> FALSE, fields |-> [k \in Fields |-> JSONParse(raw.fields[k])]]
    ELSE IF raw.kind = "null" THEN [null |-> TRUE, fields |-> NoFields]
    ELSE [null |-> FALSE, fields |-> NoFields]

\* readBody: req.on('error', reject), the promise is rejected when the body
\* stream fails
Rejects(raw) == raw.kind = "error"

\* a test that takes every falsy value for a missing one
IsFalsy(v) == v \in {"null", "undefined", "0", "\"\"", "false"}

\* body[k] == null
IsNullish(v) == v \in {"null", "undefined"}

\* required.filter(k => body[k] == null)
Missing(body) == SelectSeq(required, LAMBDA k : IsNullish(body.fields[k]))

\* checkAuth with the comparison dropped
checkAuthOff(req) == TRUE

\* checkAuth that only looks whether the header is there
checkAuthAnyKey(req) == req.key # Null

\* checkAuth: key !== CLIENT_KEY sends 401 and returns false
checkAuth(req) == req.key = Some(CLIENT_KEY)

send(status, error, detail) ==
    [NoResponse EXCEPT !.status = status, !.error = error, !.detail = detail]

\* The origins of the model that match one of the patterns of ALLOWED_ORIGINS
ALLOWED_ORIGINS ==
    {"http://localhost:3000", "http://localhost:8080", "https://dev.azure.com"}

\* const origin = req.headers['origin'] ?? ''
OriginOf(req) == IF req.origin = Null THEN "" ELSE req.origin[1]

isOriginAllowed(origin) == origin # "" /\ origin \in ALLOWED_ORIGINS

\* headers that reflect whatever origin was sent
setCorsHeadersReflecting(origin, isPreflight) ==
    [allowOrigin    |-> origin,
     allowMethods   |-> "GET, POST, OPTIONS",
     allowHeaders   |-> "Content-Type, X-Client-Key, X-Ado-Token",
     vary           |-> "Origin",
     privateNetwork |-> IF isPreflight THEN Some("true") ELSE Null]

\* The headers setCorsHeaders puts on the response
setCorsHeaders(origin, isPreflight) ==
    [allowOrigin    |-> IF isOriginAllowed(origin) THEN origin ELSE "http://localhost:3000",
     allowMethods   |-> "GET, POST, OPTIONS",
     allowHeaders   |-> "Content-Type, X-Client-Key, X-Ado-Token",
     vary           |-> "Origin",
     privateNetwork |-> IF isPreflight THEN Some("true") ELSE Null]

\* a response that leaves without the CORS headers
SentWithoutHeaders(req, r) == r

\* The response `r` as it leaves for the client of `req`, with the headers
\* handleRequest set on it before anything else
Sent(req, r) ==
    [r EXCEPT !.cors = << setCorsHeaders(OriginOf(req), req.method = "OPTIONS") >>]

\* new URL(req.url, base) throws for a request target that starts with //
\* and names no host
URLThrows(target) == Len(target) >= 2 /\ target[1] = "" /\ target[2] = ""

\* url.pathname: a target that starts with // names a host first
pathname(target) ==
    IF Len(target) >= 2 /\ target[1] = "" THEN SubSeq(target, 3, Len(target))
    ELSE target

\* send's JSON.stringify, on the request context of a job
Stringified(item) ==
    [item EXCEPT !.organizationUrl = JSONStringify(@),
                 !.projectId = JSONStringify(@),
                 !.repositoryId = JSONStringify(@),
                 !.pullRequestId = JSONStringify(@),
                 !.iterationId = JSONStringify(@)]

\* The 401 of a server configured with `key`
UnauthorizedFor(key) ==
    send(401, "Invalid or missing X-Client-Key. Expected: ", << key >>)

\* a 401 that does not state the key
UnauthorizedSilent == send(401, "Invalid or missing X-Client-Key.", << >>)

\* a rejection that speaks of the body
UnauthorizedAsValidation == send(422, "Missing required fields: ", required)

Unauthorized == UnauthorizedFor(CLIENT_KEY)

jobToListItem(job) ==
    [jobId |-> job.jobId, status |-> job.status,
     organizationUrl |-> job.organizationUrl, projectId |-> job.projectId,
     repositoryId |-> job.repositoryId, pullRequestId |-> job.pullRequestId,
     iterationId |-> job.iterationId,
     submittedAt |-> job.submittedAt, completedAt |-> job.completedAt]

jobToStatusResponse(job) ==
    [jobId |-> job.jobId, status |-> job.status,
     organizationUrl |-> job.organizationUrl, projectId |-> job.projectId,
     repositoryId |-> job.repositoryId, pullRequestId |-> job.pullRequestId,
     iterationId |-> job.iterationId,
     submittedAt |-> job.submittedAt, completedAt |-> job.completedAt,
     result |-> job.result, error |-> job.error]

\* Array.prototype.sort is stable: x goes behind every element that the
\* comparator does not put after it.
RECURSIVE InsertSorted(_, _)
InsertSorted(sorted, x) ==
    IF sorted = << >> THEN << x >>
    ELSE IF localeCompare(x.submittedAt, Head(sorted).submittedAt) > 0
         THEN << x >> \o sorted
         ELSE << Head(sorted) >> \o InsertSorted(Tail(sorted), x)

RECURSIVE SortFrom(_, _, _)
SortFrom(s, i, sorted) ==
    IF i > Len(s) THEN sorted ELSE SortFrom(s, i + 1, InsertSorted(sorted, s[i]))

\* [...jobs.values()].sort((a, b) => b.submittedAt.localeCompare(a.submittedAt))
SortedJobs == SortFrom(jobs, 1, << >>)

ListResponse ==
    [NoResponse EXCEPT !.status = 200,
                       !.list = [i \in 1..Len(SortedJobs) |->
                                   Stringified(jobToListItem(SortedJobs[i]))]]

\* a poll that answers 200 for an identity the store does not hold
PollResponseLenient(jobId) ==
    IF ~HasJob(jobId) THEN [NoResponse EXCEPT !.status = 200]
    ELSE [NoResponse EXCEPT !.status = 200,
                            !.job = << Stringified(jobToStatusResponse(GetJob(jobId))) >>]

PollResponse(jobId) ==
    IF ~HasJob(jobId) THEN send(404, "Job not found: ", << jobId >>)
    ELSE [NoResponse EXCEPT !.status = 200,
                            !.job = << Stringified(jobToStatusResponse(GetJob(jobId))) >>]

IsSubmit(req) == req.method = "POST" /\ pathname(req.path) = << "reviews" >>

IsList(req) == req.method = "GET" /\ pathname(req.path) = << "reviews" >>

\* url.pathname.match(/^\/reviews\/([^/]+)$/)
pollMatch(req) ==
    /\ Len(pathname(req.path)) = 2
    /\ pathname(req.path)[1] = "reviews"
    /\ pathname(req.path)[2] # ""

IsPoll(req) == req.method = "GET" /\ pollMatch(req)

\* The body will pass validation and create a job
Creates(raw) ==
    ~Rejects(raw) /\ ~readBody(raw).null /\ Missing(readBody(raw)) = << >>

---------------------------------------------------------------------------
(* makeJob *)

Job(jobId, fields, t) ==
    [jobId |-> jobId, status |-> "pending",
     organizationUrl |-> fields.organizationUrl, projectId |-> fields.projectId,
     repositoryId |-> fields.repositoryId, pullRequestId |-> fields.pullRequestId,
     iterationId |-> fields.iterationId,
     submittedAt |-> toISOString(t), completedAt |-> Null,
     result |-> Null, error |-> Null]

\* an identity generator that may repeat itself
randomUUIDRepeating == UUIDs

\* crypto.randomUUID(): an identity it has not returned before
randomUUID ==
    {UUIDList[i] : i \in {k \in 1..Len(UUIDList) :
                              /\ UUIDList[k] \notin uuidsDrawn
                              /\ \A j \in 1..(k - 1) : UUIDList[j] \in uuidsDrawn}}

makeJob(fields, jobId) ==
    /\ jobs' = MapSet(jobs, Job(jobId, fields, now))
    /\ timers' = timers \o scheduleJob(jobId)
    /\ uuidsDrawn' = uuidsDrawn \cup {jobId}

---------------------------------------------------------------------------
(* handleRequest *)

\* What handleRequest sends for `req` before it returns or suspends:
\* nothing when `new URL` throws, and nothing yet for a POST /reviews that
\* passed checkAuth and awaits its body
Respond(req) ==
    IF req.method = "OPTIONS" THEN Sent(req, send(204, "", << >>))
    ELSE IF URLThrows(req.path) THEN NoResponse
    ELSE IF IsSubmit(req)
      THEN IF ~checkAuth(req) THEN Sent(req, Unauthorized) ELSE NoResponse
    ELSE IF IsList(req)
      THEN Sent(req, IF ~checkAuth(req) THEN Unauthorized ELSE ListResponse)
    ELSE IF IsPoll(req)
      THEN Sent(req, IF ~checkAuth(req) THEN Unauthorized
                     ELSE PollResponse(pathname(req.path)[2]))
    ELSE Sent(req, send(404, "Not found", << >>))

\* What handleRequest sends for the POST `req` once its body `raw` is there,
\* jobId being the identity makeJob draws: nothing when the await or
\* body[k] throws
Settle(req, raw, jobId) ==
    IF Rejects(raw) \/ readBody(raw).null THEN NoResponse
    ELSE IF Missing(readBody(raw)) # << >>
      THEN Sent(req, send(422, "Missing required fields: ", Missing(readBody(raw))))
    ELSE Sent(req, [NoResponse EXCEPT !.status = 202, !.jobId = jobId])

\* handleRequest up to its first await, or to its end.  `new URL` throws
\* inside the async function for a target it does not accept: like the
\* TypeError of BodyRead, nothing catches it.
HandleRequest(req) ==
    /\ Idle
    /\ (IsSubmit(req) /\ checkAuth(req)) => Len(reading) < MaxReading
    /\ request' = req
    /\ response' = Respond(req)
    /\ reading' = IF req.method # "OPTIONS" /\ ~URLThrows(req.path)
                       /\ IsSubmit(req) /\ checkAuth(req)
                  THEN Append(reading, req) ELSE reading
    /\ IF req.method # "OPTIONS" /\ URLThrows(req.path)
         THEN alive' \in BOOLEAN
         ELSE UNCHANGED alive
    /\ UNCHANGED << certVars, extensionVars, DELAY_MS, SIMULATE, jobs, timers, now, uuidsDrawn,
                    accepted, ran >>

\* handleRequest after `await readBody(req)`: the body `raw` of a suspended
\* POST has arrived, or its stream has failed.  The await throws when the
\* promise was rejected, and body[k] throws a TypeError when the body is
\* null; nothing catches either, no response is sent, and the unhandled
\* rejection ends the process unless the runtime only warns about it.
BodyRead ==
    \E i \in 1..Len(reading), raw \in Bodies :
        LET req == [reading[i] EXCEPT !.body = raw]
            body == readBody(raw)
        IN  /\ Idle
            /\ Creates(raw) => Len(jobs) < MaxJobs
            /\ request' = req
            /\ reading' = Remove(reading, i)
            /\ IF Rejects(raw) \/ body.null
                 THEN /\ response' = Settle(req, raw, "")
                      /\ alive' \in BOOLEAN
                      /\ UNCHANGED << jobs, timers, uuidsDrawn, accepted, ran >>
               ELSE IF Missing(body) # << >>
                 THEN /\ response' = Settle(req, raw, "")
                      /\ UNCHANGED << jobs, timers, uuidsDrawn, accepted, ran, alive >>
               ELSE \E jobId \in randomUUID :
                      /\ makeJob(body.fields, jobId)
                      /\ response' = Settle(req, raw, jobId)
                      /\ accepted' = Append(accepted, jobId)
                      /\ ran' = [ran EXCEPT ![jobId] = << >>]
                      /\ UNCHANGED alive
            /\ UNCHANGED << certVars, extensionVars, DELAY_MS, SIMULATE, now >>

---------------------------------------------------------------------------
(* The plain-HTTP JavaScript variant of the server (unnamed/part_000).     *)
(* Its functions are written out from its own text; what both variants     *)
(* take from the runtime (JSON, Map, setTimeout, URL, Date) and the two    *)
(* mock constants, which are the same text in both files, are shared.      *)

\* The origins of the model that match /^http:\/\/localhost(:\d+)?$/
LocalhostOriginsJs == {"http://localhost:3000", "http://localhost:8080"}

\* setCorsHeaders(res, origin): no private-network header is ever set
setCorsHeadersJs(origin) ==
    [allowOrigin    |-> IF origin # "" /\ origin \in LocalhostOriginsJs
                        THEN origin ELSE "http://localhost:3000",
     allowMethods   |-> "GET, POST, OPTIONS",
     allowHeaders   |-> "Content-Type, X-Client-Key, X-Ado-Token",
     vary           |-> "Origin",
     privateNetwork |-> Null]

SentJs(req, r) == [r EXCEPT !.cors = << setCorsHeadersJs(OriginOf(req)) >>]

\* a key check that only looks whether the header is there
checkAuthJsAnyKey(req) == req.key # Null

checkAuthJs(req) == req.key = Some(CLIENT_KEY)

UnauthorizedJs ==
    send(401, "Invalid or missing X-Client-Key. Expected: ", << CLIENT_KEY >>)

requiredJs ==
    << "organizationUrl", "projectId", "repositoryId", "pullRequestId", "iterationId" >>

\* required.filter(k => body[k] == null)
MissingJs(body) ==
    SelectSeq(requiredJs, LAMBDA k : body.fields[k] \in {"null", "undefined"})

jobToListItemJs(job) ==
    [jobId |-> job.jobId, status |-> job.status,
     organizationUrl |-> job.organizationUrl, projectId |-> job.projectId,
     repositoryId |-> job.repositoryId, pullRequestId |-> job.pullRequestId,
     iterationId |-> job.iterationId,
     submittedAt |-> job.submittedAt, completedAt |-> job.completedAt]

\* {...jobToListItem(job), result: job.result, error: job.error}
jobToStatusResponseJs(job) ==
    [k \in DOMAIN jobToListItemJs(job) \cup {"result", "error"} |->
        IF k = "result" THEN job.result
        ELSE IF k = "error" THEN job.error
        ELSE jobToListItemJs(job)[k]]

ListResponseJs ==
    [NoResponse EXCEPT !.status = 200,
                       !.list = [i \in 1..Len(SortedJobs) |->
                                   Stringified(jobToListItemJs(SortedJobs[i]))]]

PollResponseJs(jobId) ==
    IF ~HasJob(jobId) THEN send(404, "Job not found: ", << jobId >>)
    ELSE [NoResponse EXCEPT !.status = 200,
                            !.job = << Stringified(jobToStatusResponseJs(GetJob(jobId))) >>]

\* handleRequest of the variant, up to its await or its end
RespondJs(req) ==
    IF req.method = "OPTIONS" THEN SentJs(req, send(204, "", << >>))
    ELSE IF URLThrows(req.path) THEN NoResponse
    ELSE IF req.method = "POST" /\ pathname(req.path) = << "reviews" >>
      THEN IF ~checkAuthJs(req) THEN SentJs(req, UnauthorizedJs) ELSE NoResponse
    ELSE IF req.method = "GET" /\ pathname(req.path) = << "reviews" >>
      THEN SentJs(req, IF ~checkAuthJs(req) THEN UnauthorizedJs ELSE ListResponseJs)
    ELSE IF req.method = "GET" /\ pollMatch(req)
      THEN SentJs(req, IF ~checkAuthJs(req) THEN UnauthorizedJs
                       ELSE PollResponseJs(pathname(req.path)[2]))
    ELSE SentJs(req, send(404, "Not found", << >>))

\* The variant suspends the POST in `await readBody(req)`
SuspendsJs(req) ==
    /\ req.method # "OPTIONS"
    /\ ~URLThrows(req.path)
    /\ req.method = "POST" /\ pathname(req.path) = << "reviews" >>
    /\ checkAuthJs(req)

\* handleRequest of the variant after its await
SettleJs(req, raw, jobId) ==
    IF Rejects(raw) \/ readBody(raw).null THEN NoResponse
    ELSE IF MissingJs(readBody(raw)) # << >>
      THEN SentJs(req, send(422, "Missing required fields: ", MissingJs(readBody(raw))))
    ELSE SentJs(req, [NoResponse EXCEPT !.status = 202, !.jobId = jobId])

\* The variant creates a job from the body
CreatesJs(raw) ==
    ~Rejects(raw) /\ ~readBody(raw).null /\ MissingJs(readBody(raw)) = << >>

\* The record makeJob of the variant stores
JobJs(jobId, fields, t) ==
    [jobId |-> jobId, status |-> "pending",
     organizationUrl |-> fields.organizationUrl, projectId |-> fields.projectId,
     repositoryId |-> fields.repositoryId, pullRequestId |-> fields.pullRequestId,
     iterationId |-> fields.iterationId,
     submittedAt |-> toISOString(t), completedAt |-> Null,
     result |-> Null, error |-> Null]

processingDelayJs == MathMin(Num(2000), Times033(DELAY_MS))

\* The timers scheduleJob of the variant arms, in order
scheduleJobJs(jobId) ==
    << Timer(jobId, "processing", processingDelayJs),
       Timer(jobId, "terminal", DELAY_MS) >>

\* What a callback of the variant leaves of the store
AfterCallbackJs(tm) ==
    IF ~HasJob(tm.jobId) THEN jobs
    ELSE [jobs EXCEPT ![JobAt(tm.jobId)] =
            IF tm.cb = "processing" THEN [@ EXCEPT !.status = "processing"]
            ELSE IF SIMULATE = "fail"
              THEN [@ EXCEPT !.status = "failed",
                             !.error = Some(MOCK_FAIL_ERROR),
                             !.completedAt = Some(toISOString(now))]
              ELSE [@ EXCEPT !.status = "completed",
                             !.result = Some(MOCK_SUCCESS_RESULT),
                             !.completedAt = Some(toISOString(now))]]

---------------------------------------------------------------------------
(* The review page's poll loop (src/review/review.ts, api/reviewClient)     *)

POLL_INTERVAL_MS == 3000

\* 5 * 60_000
POLL_TIMEOUT_MS == 300000

\* What a status request can take, in ms, beyond no time at all
Latencies == {1}

\* What pollReview returns, and what it throws
Returned(v) == << [kind |-> "result", result |-> v, message |-> ""] >>

Thrown(message) == << [kind |-> "error", result |-> Null, message |-> message] >>

TimedOut == Thrown("Review timed out after 5 minutes. Please try again.")

\* The error axios throws for a response that is not 2xx
RequestFailed == Thrown("Request failed with status code")

\* The data of a status response as pollReview destructures it; http is the
\* status of the HTTP response, which axios turns into an exception unless
\* it is 2xx
NoReply == [http |-> 0, status |-> "", result |-> Null, error |-> Null]

\* No pollReview call: pc is where the call stands
NoClient ==
    [pc |-> "off", jobId |-> "", deadline |-> 0, wake |-> 0, lagged |-> 0,
     reply |-> NoReply, outcome |-> Null, statusText |-> ""]

\* The request getReviewStatus sends
StatusRequest(jobId) ==
    Req("GET", << "reviews", jobId >>, Some(CLIENT_KEY), Null)

\* response.data of the testbed server's answer
ReplyOf(r) ==
    IF r.status = 200
    THEN [http |-> 200, status |-> r.job[1].status,
          result |-> r.job[1].result, error |-> r.job[1].error]
    ELSE [NoReply EXCEPT !.http = r.status]

\* `status === 'completed' && result`: result is a ReviewResult object,
\* null, or absent, and every object is truthy
Truthy(v) == v # Null

\* a test that returns whatever comes with completed
ReturnsResultLoose(reply) == reply.status = "completed"

ReturnsResult(reply) == reply.status = "completed" /\ Truthy(reply.result)

\* error ?? 'Review failed on the server.'
ErrorMessage(reply) ==
    IF reply.error = Null THEN "Review failed on the server." ELSE reply.error[1]

\* const result = await pollReview(...): the call starts and fixes its deadline
PollReviewStarts ==
    /\ client.pc = "submitted"
    /\ client' = [client EXCEPT !.pc = "loop", !.deadline = now + POLL_TIMEOUT_MS]
    /\ UNCHANGED << serverVars, certVars, page >>

\* a deadline check that also gives up at the deadline itself
LoopHeadInclusive ==
    /\ client.pc = "loop"
    /\ client' = IF now >= client.deadline
                 THEN [client EXCEPT !.pc = "done", !.outcome = TimedOut]
                 ELSE [client EXCEPT !.pc = "requested"]
    /\ UNCHANGED << serverVars, certVars, page >>

\* The head of the while loop: the deadline check, then getReviewStatus
\* sends its request
LoopHead ==
    /\ client.pc = "loop"
    /\ client' = IF now > client.deadline
                 THEN [client EXCEPT !.pc = "done", !.outcome = TimedOut]
                 ELSE [client EXCEPT !.pc = "requested"]
    /\ UNCHANGED << serverVars, certVars, page >>

\* The testbed server handles the status request: what handleRequest sends
\* for it is the reply
ServerAnswers ==
    /\ client.pc = "requested"
    /\ Idle
    /\ client' = [client EXCEPT !.pc = "answered",
                                !.reply = ReplyOf(Respond(StatusRequest(client.jobId)))]
    /\ UNCHANGED << serverVars, certVars, page >>

\* The status responses of a server that need not be the testbed's
Replies ==
    { [http |-> 200, status |-> st, result |-> res, error |-> err] :
        st \in {"pending", "processing", "completed", "failed"},
        res \in {Null, Some(MOCK_SUCCESS_RESULT)},
        err \in {Null, Some(""), Some("diff unavailable")} }
    \cup { [NoReply EXCEPT !.http = 404] }

\* Some server answers the status request
AnyServerAnswers ==
    /\ client.pc = "requested"
    /\ \E reply \in Replies :
         client' = [client EXCEPT !.pc = "answered", !.reply = reply]
    /\ UNCHANGED << serverVars, certVars, page >>

\* getReviewStatus returns, or throws for a response that is not 2xx, and
\* the loop body runs up to its setTimeout
Receive ==
    /\ client.pc = "answered"
    /\ client' =
         IF client.reply.http # 200
           THEN [client EXCEPT !.pc = "done", !.outcome = RequestFailed]
         ELSE IF ReturnsResult(client.reply)
           THEN [client EXCEPT !.pc = "done",
                               !.outcome = Returned(client.reply.result)]
         ELSE IF client.reply.status = "failed"
           THEN [client EXCEPT !.pc = "done",
                               !.outcome = Thrown(ErrorMessage(client.reply))]
         ELSE [client EXCEPT
                 !.pc = "sleeping",
                 !.wake = now + POLL_INTERVAL_MS,
                 !.statusText = IF client.reply.status = "processing"
                                THEN "Agent is reviewing your code"
                                ELSE "Waiting for agent"]
    /\ UNCHANGED << serverVars, certVars, page >>

\* The setTimeout of the loop body has fired
Wake ==
    /\ client.pc = "sleeping"
    /\ client.wake <= now
    /\ client' = [client EXCEPT !.pc = "loop", !.reply = NoReply]
    /\ UNCHANGED << serverVars, certVars, page >>

\* The instants at which something armed becomes due
DueInstants ==
    {timers[i].due : i \in 1..Len(timers)}
        \cup (IF client.pc = "sleeping" THEN {client.wake} ELSE {})

\* Time passes on the machine both programs run on.  Nothing that is due is
\* kept waiting: while pollReview sleeps the clock moves to the next due
\* instant, and while a status request is under way it moves by what the
\* request takes.
Elapse ==
    /\ request = NoRequest
    /\ \A t \in DueInstants : t > now
    /\ \/ /\ client.pc = "sleeping"
          /\ \E t \in DueInstants :
                /\ \A u \in DueInstants : t <= u
                /\ now' = t
          /\ UNCHANGED client
       \/ /\ client.pc = "requested"
          /\ \E d \in Latencies :
                /\ client.lagged + d <= MaxLag
                /\ \A u \in DueInstants : now + d <= u
                /\ now' = now + d
                /\ client' = [client EXCEPT !.lagged = @ + d]
    /\ UNCHANGED << DELAY_MS, SIMULATE, jobs, timers, uuidsDrawn, reading,
                    request, response, accepted, ran, alive, certVars, page >>

\* submitReview and the server's handling of it, from handleRequest to the
\* 202: the page has a jobId
SubmitAccepted ==
    /\ client.pc = "off"
    /\ Idle
    /\ \E jobId \in randomUUID :
         /\ makeJob(readBody([kind |-> "object", fields |-> SubmittedFields]).fields, jobId)
         /\ accepted' = Append(accepted, jobId)
         /\ ran' = [ran EXCEPT ![jobId] = << >>]
         /\ client' = [client EXCEPT !.pc = "submitted", !.jobId = jobId]
    /\ UNCHANGED << DELAY_MS, SIMULATE, now, reading, request, response, alive,
                    certVars, page >>

---------------------------------------------------------------------------
(* The review page's pull-request autocomplete (src/review/review.ts) *)

\* A text is the sequence of its characters.

\* The repositories of the project, by id
RepoIds == {"repoA", "repoB"}

\* What gitClient.getPullRequests resolves with for a repository: its
\* active pull requests, one of them without a title
PullRequestsOf(repoId) ==
    IF repoId = "repoA"
    THEN << [pullRequestId |-> 1, title |-> Some(<< "F", "i", "x" >>)] >>
    ELSE << [pullRequestId |-> 2, title |-> Null] >>

\* String(pullRequestId), for the ids there are
String(n) == IF n = 1 THEN << "1" >> ELSE << "2" >>

\* pr.title ?? `PR #${pr.pullRequestId}`
TitleOf(pr) ==
    IF pr.title = Null THEN << "P", "R", " ", "#" >> \o String(pr.pullRequestId)
    ELSE pr.title[1]

\* The PrItem pushed for a pull request the call returned
PrItem(pr) == [pullRequestId |-> pr.pullRequestId, title |-> TitleOf(pr)]

\* String.prototype.toLowerCase, on the letters there are
LowerChar(c) ==
    IF c = "F" THEN "f" ELSE IF c = "P" THEN "p" ELSE IF c = "R" THEN "r" ELSE c

toLowerCase(text) == [i \in 1..Len(text) |-> LowerChar(text[i])]

\* String.prototype.trim
RECURSIVE trim(_)
trim(text) ==
    IF text = << >> THEN text
    ELSE IF text[1] = " " THEN trim(Tail(text))
    ELSE IF text[Len(text)] = " " THEN trim(SubSeq(text, 1, Len(text) - 1))
    ELSE text

\* String.prototype.includes
includes(text, q) ==
    \E i \in 0..(Len(text) - Len(q)) : SubSeq(text, i + 1, i + Len(q)) = q

\* What the user types into prSearch
Queries == { << >>, << "2" >>, << " ", "F" >> }

\* The keys keydown looks at, and one it does not
Keys == {"ArrowDown", "ArrowUp", "Enter", "Escape", "a"}

\* const filtered = q ? prCache.filter(...) : prCache
Filtered(cache, query) ==
    LET q == trim(toLowerCase(query))
        Keep(pr) == \/ includes(String(pr.pullRequestId), q)
                    \/ includes(toLowerCase(pr.title), q)
        kept[i \in 0..Len(cache)] ==
            IF i = 0 THEN << >>
            ELSE IF Keep(cache[i]) THEN Append(kept[i - 1], cache[i])
            ELSE kept[i - 1]
    IN  IF q = << >> THEN cache ELSE kept[Len(cache)]

\* The page as main() leaves it: no repository selected, prSearch empty,
\* no cache, the dropdown hidden and empty, no call of filterAndRender
\* suspended, no timer armed
NoPage ==
    [repoSelect |-> "", prSearch |-> << >>, selectedPrId |-> Null,
     prCache |-> Null, prCacheRepoId |-> Null, dropdownFocusIndex |-> -1,
     hidden |-> TRUE, listed |-> [kind |-> "blank", items |-> << >>],
     fetches |-> << >>, prSearchDebounce |-> FALSE, closing |-> FALSE]

\* renderDropdownItems(items, isLoading), on the page pg
renderDropdownItems(pg, items, isLoading) ==
    [pg EXCEPT
       !.dropdownFocusIndex = -1,
       !.hidden = FALSE,
       !.listed = IF isLoading THEN [kind |-> "loading", items |-> << >>]
                  ELSE IF items = << >> THEN [kind |-> "none", items |-> << >>]
                  ELSE [kind |-> "items", items |-> items]]

\* closeDropdown()
closeDropdown(pg) == [pg EXCEPT !.hidden = TRUE, !.dropdownFocusIndex = -1]

\* selectPr(prId, title): the text is `#${prId} — ${title}`
selectPr(pg, item) ==
    closeDropdown([pg EXCEPT
                     !.selectedPrId = Some(item.pullRequestId),
                     !.prSearch = << "#" >> \o String(item.pullRequestId)
                                    \o << " ", "-", " " >> \o item.title])

\* filterAndRender(query) up to its await, or to its end when the cache is
\* the selected repository's
filterAndRender(pg, query) ==
    IF pg.repoSelect = "" THEN pg
    ELSE IF pg.prCacheRepoId # Some(pg.repoSelect) \/ pg.prCache = Null
      THEN [renderDropdownItems(pg, << >>, TRUE) EXCEPT
              !.prCache = Some(<< >>),
              !.prCacheRepoId = Some(pg.repoSelect),
              !.fetches = Append(@, [repoId |-> pg.repoSelect, query |-> query])]
    ELSE renderDropdownItems(pg, Filtered(pg.prCache[1], query), FALSE)

\* The lookup `query` would start a getPullRequests call
Fetches(pg) ==
    pg.repoSelect # "" /\ (pg.prCacheRepoId # Some(pg.repoSelect) \/ pg.prCache = Null)

PageUnchanged == UNCHANGED << serverVars, certVars, client >>

\* prSearch is enabled while a repository is selected
SearchEnabled == page.repoSelect # ""

\* prSearch 'focus'
Focus ==
    /\ SearchEnabled
    /\ Fetches(page) => Len(page.fetches) < MaxFetches
    /\ page' = filterAndRender(page, page.prSearch)
    /\ PageUnchanged

\* prSearch 'input': the user has changed the text
Input ==
    /\ SearchEnabled
    /\ \E text \in Queries :
         /\ text # page.prSearch
         /\ page' = [page EXCEPT !.prSearch = text, !.selectedPrId = Null,
                                 !.prSearchDebounce = TRUE]
    /\ PageUnchanged

\* The debounce timer of 'input' fires
DebounceFires ==
    /\ page.prSearchDebounce
    /\ Fetches(page) => Len(page.fetches) < MaxFetches
    /\ page' = filterAndRender([page EXCEPT !.prSearchDebounce = FALSE], page.prSearch)
    /\ PageUnchanged

\* prSearch 'blur': setTimeout(closeDropdown, 150)
Blur ==
    /\ SearchEnabled
    /\ ~page.closing
    /\ page' = [page EXCEPT !.closing = TRUE]
    /\ PageUnchanged

\* The timer of 'blur' fires
CloseFires ==
    /\ page.closing
    /\ page' = closeDropdown([page EXCEPT !.closing = FALSE])
    /\ PageUnchanged

\* The li[data-pr-id] elements of the dropdown
getDropdownItems(pg) == pg.listed.items

\* prSearch 'keydown'.  ArrowUp on a dropdown without items leaves the
\* index at 0, and Enter then reads items[0], which is undefined: the
\* handler ends with a TypeError and has changed nothing.
Keydown(key) ==
    /\ SearchEnabled
    /\ (page.hidden /\ key \in {"ArrowDown", "Enter"} /\ Fetches(page))
          => Len(page.fetches) < MaxFetches
    /\ page' =
         LET items == getDropdownItems(page)
         IN  IF page.hidden
               THEN IF key \in {"ArrowDown", "Enter"}
                    THEN filterAndRender(page, page.prSearch) ELSE page
             ELSE IF key = "ArrowDown"
               THEN [page EXCEPT !.dropdownFocusIndex =
                               IF @ + 1 < Len(items) - 1 THEN @ + 1 ELSE Len(items) - 1]
             ELSE IF key = "ArrowUp"
               THEN [page EXCEPT !.dropdownFocusIndex = IF @ - 1 > 0 THEN @ - 1 ELSE 0]
             ELSE IF key = "Enter"
               THEN IF page.dropdownFocusIndex >= 0
                         /\ page.dropdownFocusIndex < Len(items)
                    THEN selectPr(page, items[page.dropdownFocusIndex + 1])
                    ELSE page
             ELSE IF key = "Escape" THEN closeDropdown(page)
             ELSE page
    /\ PageUnchanged

\* 'mousedown' on an item of the open dropdown
Mousedown ==
    /\ ~page.hidden
    /\ \E i \in 1..Len(getDropdownItems(page)) :
         page' = selectPr(page, getDropdownItems(page)[i])
    /\ PageUnchanged

\* repoSelect 'change': the user has selected another entry
RepoChange ==
    /\ \E repoId \in RepoIds \cup {""} :
         /\ repoId # page.repoSelect
         /\ page' = [closeDropdown(page) EXCEPT
                        !.repoSelect = repoId,
                        !.selectedPrId = Null,
                        !.prSearch = << >>,
                        !.listed = [kind |-> "blank", items |-> << >>]]
    /\ PageUnchanged

\* How a getPullRequests call for repoId can end: it resolves with the pull
\* requests of that repository or with null, or it is rejected
Settlements(repoId) ==
    { [rejected |-> FALSE, raw |-> Some(PullRequestsOf(repoId))],
      [rejected |-> FALSE, raw |-> Null],
      [rejected |-> TRUE, raw |-> Null] }

\* filterAndRender after its await: the getPullRequests call of a suspended
\* lookup ends and the rest of the function runs (`raw ?? []` when it
\* resolved, the empty catch when it was rejected).  prCache is the
\* variable of main(), read when the push runs.
FetchCompletes ==
    \E i \in 1..Len(page.fetches) :
      \E end \in Settlements(page.fetches[i].repoId) :
        LET call == page.fetches[i]
            got == IF end.raw = Null THEN << >> ELSE end.raw[1]
            pushed == page.prCache[1] \o [k \in 1..Len(got) |-> PrItem(got[k])]
            pg == [page EXCEPT !.fetches = Remove(@, i), !.prCache = Some(pushed)]
        IN  /\ page' = renderDropdownItems(pg, Filtered(pushed, call.query), FALSE)
            /\ PageUnchanged


---------------------------------------------------------------------------
(* The process *)

\* The server's memory when the process starts
FreshMemory ==
    /\ jobs = << >>
    /\ timers = << >>
    /\ now = 0
    /\ uuidsDrawn = {}
    /\ reading = << >>
    /\ request = NoRequest
    /\ response = NoResponse
    /\ accepted = << >>
    /\ ran = [u \in UUIDs |-> << >>]
    /\ alive = TRUE

\* The server listens, having generated its pair in an empty directory on
\* day 0
Started ==
    /\ HTTP_ONLY = FALSE
    /\ phase = "listening"
    /\ today = 0
    /\ certFile = [kind |-> "pem", validTo |-> CertDays]
    /\ keyFile = "present"
    /\ served = << [validTo |-> CertDays, generated |-> TRUE] >>
    /\ material = [certGen |-> 1, keyGen |-> 1,
                   returned |-> << [cert |-> 1, key |-> 1] >>,
                   managerRan |-> TRUE]

Init ==
    /\ \E c \in Configurations : DELAY_MS = c[1] /\ SIMULATE = c[2]
    /\ FreshMemory
    /\ Started
    /\ client = NoClient
    /\ page = NoPage

\* The handler returns to the event loop
Return ==
    /\ alive
    /\ request # NoRequest
    /\ request' = NoRequest
    /\ response' = NoResponse
    /\ UNCHANGED << certVars, extensionVars, DELAY_MS, SIMULATE, jobs, timers, now, uuidsDrawn,
                    reading, accepted, ran, alive >>

Next ==
    \/ \E req \in Requests : HandleRequest(req)
    \/ BodyRead
    \/ Return
    \/ FireTimer
    \/ Tick
    \/ Sleep

Spec == Init /\ [][Next]_vars

\* The event loop at work: a handler that runs returns, time passes while a
\* timer is armed, and a timer that is due has its callback run, however
\* many requests arrive in between.  All three stop when the process ends.
FairSpec ==
    Spec /\ WF_vars(Return) /\ SF_vars(Sleep) /\ SF_vars(FireTimer)

---------------------------------------------------------------------------
(* Startup: the process from its start to listen, over the days *)

\* a start that calls the certificate manager whatever HTTP_ONLY says
CreateServerAlwaysLoading ==
    /\ phase = "starting"
    /\ phase' = "created"
    /\ served' = << loadOrGenerateCert.pair >>
    /\ certFile' = loadOrGenerateCert.certFile
    /\ keyFile' = loadOrGenerateCert.keyFile
    /\ material' = [material EXCEPT !.managerRan = TRUE]
    /\ UNCHANGED << HTTP_ONLY, today, serverVars,
                    extensionVars >>

\* const server = HTTP_ONLY ? http.createServer(...) : (() => { ... })()
\* https.createServer builds its TLS context at once and throws for a key
\* that does not belong to the certificate: nothing catches that and the
\* process ends before listen.
CreateServer ==
    /\ phase = "starting"
    /\ IF HTTP_ONLY
         THEN /\ phase' = "created"
              /\ served' = Null
              /\ UNCHANGED << certFile, keyFile, material >>
         ELSE /\ loadOrGenerateCert.pair.generated => NewGeneration <= MaxGenerations
              /\ served' = << loadOrGenerateCert.pair >>
              /\ certFile' = loadOrGenerateCert.certFile
              /\ keyFile' = loadOrGenerateCert.keyFile
              /\ material' = AfterLoadOrGenerate
              /\ phase' = IF AfterLoadOrGenerate.returned[1].cert
                               = AfterLoadOrGenerate.returned[1].key
                          THEN "created" ELSE "failed"
    /\ UNCHANGED << HTTP_ONLY, today, serverVars,
                    extensionVars >>

\* The process is stopped inside loadOrGenerateCert between
\* fs.writeFileSync(CERT_FILE, ...) and fs.writeFileSync(KEY_FILE, ...):
\* the certificate file holds the new certificate and the key file is as
\* it was.
StoppedBetweenWrites ==
    /\ phase = "starting"
    /\ ~HTTP_ONLY
    /\ loadOrGenerateCert.pair.generated
    /\ NewGeneration <= MaxGenerations
    /\ phase' = "failed"
    /\ certFile' = loadOrGenerateCert.certFile
    /\ material' = [material EXCEPT !.certGen = NewGeneration, !.managerRan = TRUE]
    /\ UNCHANGED << HTTP_ONLY, today, keyFile, served, serverVars,
                    extensionVars >>

\* a listen that persists the pair once more
ListenPersisting ==
    /\ phase = "created"
    /\ phase' = "listening"
    /\ certFile' = [kind |-> "pem", validTo |-> today + CertDays + 1]
    /\ UNCHANGED << HTTP_ONLY, today, keyFile, served, material, serverVars,
                    extensionVars >>

\* server.listen(PORT, ...)
Listen ==
    /\ phase = "created"
    /\ phase' = "listening"
    /\ UNCHANGED << HTTP_ONLY, today, certFile, keyFile, served, material, serverVars,
                    extensionVars >>

\* Days pass, whatever the process is doing
TimePasses ==
    /\ \E d \in DayChoices : d > today /\ today' = d
    /\ UNCHANGED << HTTP_ONLY, phase, certFile, keyFile, served, material, serverVars,
                    extensionVars >>

\* The process is started again after it was stopped or has ended: its
\* memory is lost, the two files stay
Restart ==
    /\ phase \in {"listening", "failed"}
    /\ phase' = "starting"
    /\ served' = Null
    /\ material' = [material EXCEPT !.returned = Null, !.managerRan = FALSE]
    /\ jobs' = << >>
    /\ timers' = << >>
    /\ now' = 0
    /\ uuidsDrawn' = {}
    /\ reading' = << >>
    /\ request' = NoRequest
    /\ response' = NoResponse
    /\ accepted' = << >>
    /\ ran' = [u \in UUIDs |-> << >>]
    /\ alive' = TRUE
    /\ UNCHANGED << DELAY_MS, SIMULATE, HTTP_ONLY, today, certFile, keyFile,
                    extensionVars >>

StartupInit ==
    /\ DELAY_MS = Num(6000)
    /\ SIMULATE = "success"
    /\ FreshMemory
    /\ HTTP_ONLY \in BOOLEAN
    /\ phase = "starting"
    /\ today = 0
    /\ certFile \in CertFiles
    /\ keyFile \in KeyFiles
    /\ served = Null
    /\ material = [certGen |-> 0, keyGen |-> 0, returned |-> Null,
                   managerRan |-> FALSE]
    /\ client = NoClient
    /\ page = NoPage

StartupNext ==
    \/ CreateServer
    \/ StoppedBetweenWrites
    \/ Listen
    \/ TimePasses
    \/ Restart
    \/ \E req \in Requests : HandleRequest(req)
    \/ Return

StartupSpec == StartupInit /\ [][StartupNext]_vars

---------------------------------------------------------------------------
(* The review page at work *)

\* The page with pollReview about to be called for a submitted job
ClientInit ==
    /\ DELAY_MS = Num(6000) /\ SIMULATE = "success"
    /\ FreshMemory
    /\ Started
    /\ client = [NoClient EXCEPT !.pc = "submitted", !.jobId = UUIDList[1]]
    /\ page = NoPage

\* pollReview against a server that answers as it likes
ClientNext ==
    \/ PollReviewStarts
    \/ LoopHead
    \/ AnyServerAnswers
    \/ Receive
    \/ Wake
    \/ Elapse

ClientSpec == ClientInit /\ [][ClientNext]_vars

\* The delays and modes the composed runs are started with: one far below
\* the poll timeout, in each mode; one poll interval below it, and less
\* than one; above it; and one beyond what setTimeout takes
PollConfigurations ==
    { << Num(6000), "success" >>, << Num(6000), "fail" >>,
      << Num(297000), "success" >>, << Num(299000), "success" >>,
      << Num(299000), "fail" >>, << Num(600000), "success" >>,
      << ThreeBillion, "success" >> }

PollInit ==
    /\ \E c \in PollConfigurations : DELAY_MS = c[1] /\ SIMULATE = c[2]
    /\ FreshMemory
    /\ Started
    /\ client = NoClient
    /\ page = NoPage

\* The page and the testbed server together
PollNext ==
    \/ SubmitAccepted
    \/ PollReviewStarts
    \/ LoopHead
    \/ ServerAnswers
    \/ Receive
    \/ Wake
    \/ FireTimer
    \/ Elapse

PollSpec == PollInit /\ [][PollNext]_vars

\* Both event loops at work: a step of the page that is ready runs, every
\* status request is answered, a timer that is due has its callback run,
\* and time passes.
FairPollSpec ==
    PollSpec /\ WF_vars(SubmitAccepted) /\ WF_vars(PollReviewStarts)
             /\ WF_vars(LoopHead) /\ WF_vars(ServerAnswers) /\ WF_vars(Receive)
             /\ WF_vars(Wake) /\ WF_vars(FireTimer) /\ WF_vars(Elapse)

\* The page once main() has set it up
PageInit ==
    /\ DELAY_MS = Num(6000) /\ SIMULATE = "success"
    /\ FreshMemory
    /\ Started
    /\ client = NoClient
    /\ page = NoPage

\* The events of the autocomplete, as the browser delivers them
PageNext ==
    \/ Focus
    \/ Input
    \/ DebounceFires
    \/ Blur
    \/ CloseFires
    \/ \E key \in Keys : Keydown(key)
    \/ Mousedown
    \/ RepoChange
    \/ FetchCompletes

PageSpec == PageInit /\ [][PageNext]_vars

---------------------------------------------------------------------------
(* Vocabulary of the properties *)

Terminal == {"completed", "failed"}

StatusEdges ==
    { << "pending", "processing" >>, << "processing", "completed" >>,
      << "processing", "failed" >> }

\* The request carries an X-Client-Key header equal to the configured key
CarriesKey(req) == req.key = << CLIENT_KEY >>

\* A handler has just run on `request`
Handled == request # NoRequest

\* The body of the handled POST has been read
BodyWasRead == request.body.kind \notin {"unread", "none"}

\* At least one required field is absent from the body or null in it
LacksField(raw) ==
    \/ raw.kind # "object"
    \/ \E k \in Fields : raw.fields[k] \in {"undefined", "null"}

AcceptedIds == {accepted[i] : i \in 1..Len(accepted)}

ListedIds == {response.list[i].jobId : i \in 1..Len(response.list)}

PendingSnapshot(j) ==
    /\ j.status = "pending"
    /\ j.completedAt = Null
    /\ j.result = Null
    /\ j.error = Null

---------------------------------------------------------------------------
(* C1..C10 *)

\* C1: every change of a job's status is one of the edges pending ->
\* processing, processing -> completed, processing -> failed; in particular
\* no job leaves pending for a terminal status and no terminal job changes
\* status again.
C1_StatusEdges ==
    [][\A i \in 1..Len(jobs) :
          i <= Len(jobs') =>
            \/ jobs'[i].status = jobs[i].status
            \/ << jobs[i].status, jobs'[i].status >> \in StatusEdges]_vars

\* C2: for every job of the store, completedAt is non-null iff the status is
\* terminal, result is non-null iff it is completed, error is non-null iff
\* it is failed.
C2_FieldsMatchStatus ==
    \A i \in 1..Len(jobs) :
        /\ (jobs[i].completedAt # Null) <=> (jobs[i].status \in Terminal)
        /\ (jobs[i].result # Null) <=> (jobs[i].status = "completed")
        /\ (jobs[i].error # Null) <=> (jobs[i].status = "failed")

\* C3: every Get and List response shows each job as the store holds it at
\* the instant of the response, and never with completedAt set and a
\* non-terminal status, nor with a terminal status and completedAt or its
\* result/error missing.
C3_ResponsesCoherent ==
    /\ \A i \in 1..Len(response.list) :
          /\ HasJob(response.list[i].jobId)
          /\ response.list[i].status = GetJob(response.list[i].jobId).status
          /\ response.list[i].completedAt = GetJob(response.list[i].jobId).completedAt
          /\ (response.list[i].completedAt # Null)
                <=> (response.list[i].status \in Terminal)
    /\ \A i \in 1..Len(response.job) :
          /\ HasJob(response.job[i].jobId)
          /\ response.job[i].status = GetJob(response.job[i].jobId).status
          /\ response.job[i].completedAt = GetJob(response.job[i].jobId).completedAt
          /\ response.job[i].result = GetJob(response.job[i].jobId).result
          /\ response.job[i].error = GetJob(response.job[i].jobId).error
          /\ (response.job[i].completedAt # Null)
                <=> (response.job[i].status \in Terminal)
          /\ (response.job[i].result # Null)
                <=> (response.job[i].status = "completed")
          /\ (response.job[i].error # Null)
                <=> (response.job[i].status = "failed")

\* C4 as claimed: every request other than an OPTIONS preflight that does
\* not carry the exact key is answered 401, whatever its method and path.
C4_AnyRouteRejects ==
    (Handled /\ request.method # "OPTIONS" /\ ~CarriesKey(request))
        => response.status = 401

\* C4 as amended: a request to one of the three job operations (POST
\* /reviews, GET /reviews, GET /reviews/{jobId}) that does not carry the
\* exact key is answered 401 with an error message and no job data; the key
\* is not checked on any other method/path.
C4_JobRoutesReject ==
    (Handled /\ ~CarriesKey(request)
        /\ (IsSubmit(request) \/ IsList(request) \/ IsPoll(request)))
        => /\ response.status = 401
           /\ response.error # ""
           /\ response.job = << >>
           /\ response.list = << >>

C4_Witness ==
    /\ IsPoll(request)
    /\ request.key = << "wrong-key" >>
    /\ response.status = 401
    /\ HasJob(request.path[2])

C6_MissingFieldRejected ==
    [][(request = NoRequest /\ IsSubmit(request') /\ CarriesKey(request')
          /\ request'.body.kind \notin {"unread", "error"}
          /\ LacksField(request'.body))
          => /\ response'.status = 422
             /\ jobs' = jobs
             /\ timers' = timers]_vars

C8_JobIdsUnique ==
    [][(request = NoRequest /\ response'.status = 202)
          => /\ response'.jobId \notin JobIds
             /\ response'.jobId \notin AcceptedIds
             /\ Len(jobs') = Len(jobs) + 1
             /\ \A i \in 1..Len(jobs) : jobs'[i] = jobs[i]
             /\ jobs'[Len(jobs')].jobId = response'.jobId]_vars

C8_Witness ==
    /\ response.status = 202
    /\ Len(accepted) = 2
    /\ accepted[1] # accepted[2]
    /\ Len(jobs) = 2

\* C9 as claimed: a Get that follows the 202 immediately (handled no more
\* than a millisecond after the job was created) shows the job pending, for
\* every total delay.
C9_ImmediatePollPending ==
    (IsPoll(request) /\ CarriesKey(request) /\ response.status = 200
        /\ \/ response.job[1].submittedAt = toISOString(now)
           \/ now >= 1 /\ response.job[1].submittedAt = toISOString(now - 1))
        => PendingSnapshot(response.job[1])

\* C9 as amended: a Get on the returned jobId handled in the millisecond in
\* which the job was created answers 200 and shows it pending with
\* completedAt, result and error null, for every total delay: no timer is
\* due before a millisecond has passed.
C9_PollInSameMillisecondPending ==
    (IsPoll(request) /\ CarriesKey(request) /\ request.path[2] \in AcceptedIds
        /\ GetJob(request.path[2]).submittedAt = toISOString(now))
        => /\ response.status = 200
           /\ Len(response.job) = 1
           /\ PendingSnapshot(response.job[1])

C9_Witness ==
    /\ IsPoll(request)
    /\ response.status = 200
    /\ now = 1
    /\ response.job[1].submittedAt = toISOString(now)
    /\ PendingSnapshot(response.job[1])
    /\ DELAY_MS = Num(0)

\* C10: for each job the pending -> processing callback runs before the
\* processing -> terminal callback, for every total delay.
C10_ProcessingBeforeTerminal ==
    \A u \in UUIDs :
        ran[u] \in { << >>, << "processing" >>, << "processing", "terminal" >> }

---------------------------------------------------------------------------
(* C11..C20 *)

\* The instant of a stamp of toISOString, in ms
Millis(stamp) ==
    ((stamp[1] * 10 + stamp[2]) * 60 + stamp[3] * 10 + stamp[4]) * 1000
        + stamp[5] * 100 + stamp[6] * 10 + stamp[7]

\* The second callback of job u has just run
TerminalRan(u) == ran'[u] = Append(ran[u], "terminal")

\* The request matches none of the routes and is no preflight
OtherRoute(req) ==
    /\ req # NoRequest
    /\ req.method # "OPTIONS"
    /\ ~IsSubmit(req) /\ ~IsList(req) /\ ~IsPoll(req)

\* C11 as claimed: for every total delay, zero and negative values included,
\* the first delay min(2000, DELAY_MS * 0.33) is strictly less than the
\* second delay DELAY_MS.
C11_ProcessingDelayBelowTotal == Less(processingDelay, DELAY_MS)

\* C11 as amended: min(2000, DELAY_MS * 0.33) is strictly less than DELAY_MS
\* for every total delay of 1 or more, and is not for a total delay of 0
\* (the two are equal) or below 0 (the first is the greater).
C11_ProcessingDelayBelowPositiveTotal ==
    IF DELAY_MS.hi > 0 \/ DELAY_MS.ms >= 1
    THEN Less(processingDelay, DELAY_MS)
    ELSE ~Less(processingDelay, DELAY_MS)

C11_Witness ==
    /\ DELAY_MS = Num(1)
    /\ Len(timers) = 2
    /\ timers[1].cb = "processing"
    /\ timers[2].cb = "terminal"

\* C12: every created job eventually reaches a terminal status and both of
\* its callbacks run, unless the process ends first.
C12_EveryJobTerminates ==
    \A u \in UUIDs :
        /\ (HasJob(u) /\ ran[u] = << >>)
              ~> (~alive \/ (HasJob(u) /\ GetJob(u).status \in Terminal))
        /\ HasJob(u) ~> (~alive \/ Len(ran[u]) = 2)

C12_Witness ==
    \E u \in UUIDs :
        /\ HasJob(u)
        /\ GetJob(u).status \in Terminal
        /\ ran[u] = << "processing", "terminal" >>
        /\ timers = << >>

\* C13: the second callback resolves the job to failed, with a non-empty
\* error and a null result, when the mode is exactly 'fail', and to completed,
\* with the fixed result (non-empty summary and comments) and a null error,
\* for every other mode.
C13_ModeDecidesOutcome ==
    [][\A i \in 1..Len(jobs) :
          TerminalRan(jobs[i].jobId) =>
            IF SIMULATE = "fail"
            THEN /\ jobs'[i].status = "failed"
                 /\ jobs'[i].error # Null
                 /\ jobs'[i].error[1] # ""
                 /\ jobs'[i].result = Null
            ELSE /\ jobs'[i].status = "completed"
                 /\ jobs'[i].result # Null
                 /\ jobs'[i].result[1].summary # ""
                 /\ jobs'[i].result[1].comments # << >>
                 /\ jobs'[i].error = Null]_vars

C13_Witness ==
    /\ SIMULATE = "FAIL"
    /\ \E i \in 1..Len(jobs) :
          /\ jobs[i].status = "completed"
          /\ jobs[i].result # Null
          /\ ran[jobs[i].jobId] = << "processing", "terminal" >>

\* C14: an authenticated Get on an identity that was never issued is
\* answered 404 without job data and changes neither the store nor the
\* timers, whatever the store holds.
C14_UnknownIdentityNotFound ==
    [][(request = NoRequest /\ IsPoll(request') /\ CarriesKey(request')
          /\ request'.path[2] \notin uuidsDrawn)
          => /\ response'.status = 404
             /\ response'.job = << >>
             /\ jobs' = jobs
             /\ timers' = timers
             /\ uuidsDrawn' = uuidsDrawn]_vars

C14_Witness ==
    /\ IsPoll(request)
    /\ CarriesKey(request)
    /\ request.path[2] \notin uuidsDrawn
    /\ response.status = 404
    /\ Len(jobs) > 0

\* C15: an authenticated List holds every stored job exactly once, a job
\* submitted later before one submitted earlier, and jobs with the same
\* submittedAt in the order they were inserted.
C15_ListNewestFirst ==
    (IsList(request) /\ CarriesKey(request))
        => /\ response.status = 200
           /\ Len(response.list) = Len(jobs)
           /\ \A i \in 1..Len(jobs) :
                 Cardinality({k \in 1..Len(response.list) :
                                 response.list[k].jobId = jobs[i].jobId}) = 1
           /\ \A a, b \in 1..Len(response.list) :
                 a < b =>
                   \/ Millis(response.list[a].submittedAt)
                         > Millis(response.list[b].submittedAt)
                   \/ /\ response.list[a].submittedAt = response.list[b].submittedAt
                      /\ JobAt(response.list[a].jobId) < JobAt(response.list[b].jobId)

C15_Witness ==
    /\ IsList(request)
    /\ Len(response.list) = 2
    /\ Millis(response.list[1].submittedAt) > Millis(response.list[2].submittedAt)
    /\ response.list[1].jobId = jobs[2].jobId

\* C16: the process never ends, and every request whose handler has run to
\* its end has been sent a response.
C16_EveryRequestAnswered ==
    /\ alive
    /\ (Handled /\ ~(IsSubmit(request) /\ CarriesKey(request) /\ ~BodyWasRead))
        => response.status # 0

\* C17: an authenticated POST /reviews whose body is not JSON is answered
\* 422 naming all five required fields, creates no job and arms no timer.
C17_UnparsableBodyIsEmptyObject ==
    [][(request = NoRequest /\ IsSubmit(request') /\ CarriesKey(request')
          /\ request'.body.kind = "malformed")
          => /\ response'.status = 422
             /\ response'.detail = required
             /\ jobs' = jobs
             /\ timers' = timers
             /\ alive' = alive]_vars

C17_Witness ==
    /\ IsSubmit(request)
    /\ request.body.kind = "malformed"
    /\ response.status = 422
    /\ Len(response.detail) = 5

\* C18: an OPTIONS request is answered 204 with no body and with the CORS
\* headers, for every path and with or without a key or an Origin, and
\* leaves the store, the timers and the suspended requests as they were.
C18_PreflightAlwaysSucceeds ==
    [][(request = NoRequest /\ request'.method = "OPTIONS")
          => /\ response'.status = 204
             /\ response'.error = ""
             /\ response'.detail = << >>
             /\ response'.jobId = ""
             /\ response'.job = << >>
             /\ response'.list = << >>
             /\ Len(response'.cors) = 1
             /\ response'.cors[1].allowOrigin # ""
             /\ response'.cors[1].allowMethods # ""
             /\ response'.cors[1].allowHeaders # ""
             /\ jobs' = jobs
             /\ timers' = timers
             /\ reading' = reading
             /\ uuidsDrawn' = uuidsDrawn
             /\ alive' = alive]_vars

C18_Witness ==
    /\ request.method = "OPTIONS"
    /\ request.path = << "", "" >>
    /\ request.key = Null
    /\ response.status = 204
    /\ Len(jobs) > 0

\* C19: a request whose method and path are none of POST /reviews, GET
\* /reviews, GET /reviews/{jobId} and that is no OPTIONS request is answered
\* 404 'Not found' and leaves the store as it was.
C19_OtherRoutesNotFound ==
    [][(request = NoRequest /\ OtherRoute(request'))
          => /\ response'.status = 404
             /\ response'.error = "Not found"
             /\ jobs' = jobs
             /\ alive' = alive]_vars

\* C20: no step changes the jobId, the submittedAt or the request context of
\* a stored job, and every Get and List response shows, for each job, the
\* request context that was submitted for it.
C20_ContextWriteOnce ==
    /\ \A i \in 1..Len(jobs) :
          \A k \in Fields : jobs[i][k] = JSONParse(SubmittedFields[k])
    /\ \A i \in 1..Len(response.list) :
          \A k \in Fields : response.list[i][k] = SubmittedFields[k]
    /\ \A i \in 1..Len(response.job) :
          \A k \in Fields : response.job[i][k] = SubmittedFields[k]

---------------------------------------------------------------------------
(* C21..C30 *)

\* A handler starts, or resumes after its await, and runs to its return
HandlerStep == request = NoRequest /\ request' # NoRequest

\* The timers armed for job u with callback cb
Armed(u, cb) ==
    Cardinality({i \in 1..Len(timers) : timers[i].jobId = u /\ timers[i].cb = cb})

\* How often callback cb of job u has run
Applied(u, cb) ==
    Cardinality({i \in 1..Len(ran[u]) : ran[u][i] = cb})

\* C21: a record of the store changes only in a step in which one of its
\* timer callbacks runs; no request handler changes or removes a record,
\* and the only thing a handler does to the store is to add one pending
\* record, in the step that answers a submission with 202.
C21_RecordsChangeOnlyInCallbacks ==
    [][/\ \A i \in 1..Len(jobs) :
            /\ i <= Len(jobs')
            /\ jobs'[i] # jobs[i] =>
                 /\ request' = NoRequest
                 /\ ran'[jobs[i].jobId] # ran[jobs[i].jobId]
       /\ HandlerStep =>
            /\ Len(jobs') = Len(jobs) + (IF response'.status = 202 THEN 1 ELSE 0)
            /\ response'.status = 202 =>
                 /\ IsSubmit(request')
                 /\ jobs'[Len(jobs')].jobId = response'.jobId
                 /\ PendingSnapshot(jobs'[Len(jobs')])
       /\ ~HandlerStep => Len(jobs') = Len(jobs)]_vars

\* C21: a submission is accepted while the store holds a job that has
\* already left pending.
C21_Witness ==
    /\ response.status = 202
    /\ Len(jobs) = 2
    /\ jobs[1].status \in Terminal
    /\ jobs[2].jobId = response.jobId

\* C22: for each job and each of its two transitions, the timers armed for
\* it plus the times it has been applied are one after every step that
\* changes the store, the timers or the record of callbacks (the server
\* starts with none of them), so each is armed once and applied at most
\* once; timers are armed only in the step that creates a job, two at a
\* time.
C22_TwoOneShotTransitions ==
    [][/\ (timers' # timers \/ ran' # ran \/ jobs' # jobs) =>
            \A u \in UUIDs, cb \in {"processing", "terminal"} :
                Armed(u, cb)' + Applied(u, cb)' = (IF HasJob(u)' THEN 1 ELSE 0)
       /\ Len(timers') > Len(timers) =>
            /\ response'.status = 202
            /\ Len(jobs') = Len(jobs) + 1
            /\ Len(timers') = Len(timers) + 2]_vars

\* C22: one job has had both transitions applied and another still has
\* both armed.
C22_Witness ==
    \E u, v \in UUIDs :
        /\ Applied(u, "processing") = 1 /\ Applied(u, "terminal") = 1
        /\ Armed(u, "processing") = 0 /\ Armed(u, "terminal") = 0
        /\ Armed(v, "processing") = 1 /\ Armed(v, "terminal") = 1

\* C23: completedAt goes from null to a timestamp only in the step in which
\* the job's terminal callback runs, every run of that callback leaves it
\* set, once set it never changes or becomes null again, and it is not
\* earlier than submittedAt.
C23_CompletedAtSetOnce ==
    [][\A i \in 1..Len(jobs) :
          /\ i <= Len(jobs')
          /\ jobs[i].completedAt # Null =>
               jobs'[i].completedAt = jobs[i].completedAt
          /\ (jobs[i].completedAt = Null /\ jobs'[i].completedAt # Null) =>
               /\ TerminalRan(jobs[i].jobId)
               /\ jobs'[i].status \in Terminal
               /\ Millis(jobs'[i].completedAt[1]) >= Millis(jobs'[i].submittedAt)
          /\ TerminalRan(jobs[i].jobId) => jobs'[i].completedAt # Null]_vars

\* C23: a completion time later than the submission time has outlived a
\* callback that ran after the terminal one.
C23_Witness ==
    \E i \in 1..Len(jobs) :
        /\ jobs[i].completedAt # Null
        /\ Millis(jobs[i].completedAt[1]) > Millis(jobs[i].submittedAt)
        /\ ran[jobs[i].jobId] = << "terminal", "processing" >>

\* C24 as claimed: in success mode a poll never shows processing before the
\* first delay min(2000, 0.33 * DELAY_MS) has passed since submission, and
\* never shows a terminal status before DELAY_MS has passed.
C24_PhasesFollowDelays ==
    (IsPoll(request) /\ response.status = 200 /\ SIMULATE = "success") =>
        LET elapsed == Num(now - Millis(response.job[1].submittedAt))
        IN  /\ response.job[1].status = "processing" =>
                 ~Less(elapsed, processingDelay)
            /\ response.job[1].status \in Terminal =>
                 ~Less(elapsed, DELAY_MS)

\* The stored pair is one the claim calls reusable: both files exist and
\* can be read, the certificate parses, and it expires strictly later than
\* thirty days from today
PairReusable ==
    /\ certFile.kind = "pem"
    /\ keyFile = "present"
    /\ certFile.validTo > today + 30

\* The step in which loadOrGenerateCert runs and returns
LoadsCert == phase = "starting" /\ ~HTTP_ONLY /\ material'.returned # Null

C26_FilesWrittenOnlyAtStartup ==
    [][(certFile' # certFile \/ keyFile' # keyFile) =>
         (phase = "starting" /\ ~HTTP_ONLY /\ phase' # "listening")]_vars

\* C26: the running server has answered a request on a day on which the
\* certificate on disk has expired, and the file is as startup left it.
C26_Witness ==
    /\ phase = "listening"
    /\ response.status = 200
    /\ served # Null
    /\ certFile.kind = "pem"
    /\ certFile.validTo < today
    /\ certFile.validTo = served[1].validTo

\* A response without its CORS headers
WithoutCors(r) == [r EXCEPT !.cors = << >>]

\* The request without its Origin header
WithoutOrigin(req) == [req EXCEPT !.origin = Null]

\* C27: every response sent carries Access-Control-Allow-Origin, equal to
\* the Origin header when that is on the allow-list and to
\* http://localhost:3000 otherwise; and apart from the CORS headers the
\* response is the one the same request without an Origin header gets.
C27_OriginNeverRejects ==
    [][(HandlerStep /\ response'.status # 0) =>
         /\ Len(response'.cors) = 1
         /\ response'.cors[1].allowOrigin =
              (IF request'.origin # Null /\ request'.origin[1] \in ALLOWED_ORIGINS
               THEN request'.origin[1] ELSE "http://localhost:3000")
         /\ WithoutCors(response') =
              WithoutCors(IF request'.body = Unread
                          THEN Respond(WithoutOrigin(request'))
                          ELSE Settle(WithoutOrigin(request'), request'.body,
                                      response'.jobId))]_vars

\* C27: a submission sent from an origin on the allow-list has been
\* accepted, with that origin in the header.
C27_Witness ==
    /\ response.status = 202
    /\ request.origin = Some("https://dev.azure.com")
    /\ response.cors[1].allowOrigin = "https://dev.azure.com"

\* The keys a server of the model can be configured with
ConfigurableKeys == {k[1] : k \in KeyHeaders \ {Null}}

\* C28: a 401 states the configured key, so a server configured with any
\* other key answers the same request with a different response.
C28_UnauthorizedStatesKey ==
    (Handled /\ response.status = 401) =>
        /\ response.detail = << CLIENT_KEY >>
        /\ \A k \in ConfigurableKeys \ {CLIENT_KEY} :
             Sent(request, UnauthorizedFor(k)) # response

\* C28: a request with a wrong key has been told the configured one.
C28_Witness ==
    /\ response.status = 401
    /\ request.key = Some("wrong-key")
    /\ response.detail = << CLIENT_KEY >>

\* C29: a POST /reviews without the configured key is answered 401 in the
\* step that receives it: it is not 422 whatever its body is, for the
\* handler does not suspend to read the body and reads none, and it
\* creates nothing.
C29_AuthBeforeBody ==
    [][(HandlerStep /\ IsSubmit(request') /\ ~CarriesKey(request')) =>
         /\ response'.status = 401
         /\ request'.body = Unread
         /\ reading' = reading
         /\ jobs' = jobs
         /\ timers' = timers]_vars

\* C29: a POST /reviews with a wrong key was answered 401 with its body
\* unread.
C29_Witness ==
    /\ IsSubmit(request)
    /\ request.key = Some("wrong-key")
    /\ response.status = 401
    /\ request.body = Unread
    /\ reading = << >>

\* The field is absent from the body as sent, or null in it; a body that is
\* no JSON counts as the empty object
AbsentOrNull(raw, k) ==
    raw.kind # "object" \/ raw.fields[k] \in {"undefined", "null"}

\* C30: the detail of a 422 is the list of the required fields that are
\* absent or null, each once, in the order organizationUrl, projectId,
\* repositoryId, pullRequestId, iterationId; a field present with the value
\* 0, "" or false is not in it.
C30_MissingFieldsListed ==
    [][(HandlerStep /\ response'.status = 422) =>
         /\ IsSubmit(request')
         /\ request'.body.kind \in {"object", "malformed"}
         /\ response'.detail =
              SelectSeq(<< "organizationUrl", "projectId", "repositoryId",
                           "pullRequestId", "iterationId" >>,
                        LAMBDA k : AbsentOrNull(request'.body, k))]_vars

\* C30: a body without organizationUrl, with a null iterationId and with
\* the values false, "" and 0 in the other fields was rejected for the two
\* fields only.
C30_Witness ==
    /\ response.status = 422
    /\ request.body.kind = "object"
    /\ request.body.fields.projectId = "false"
    /\ request.body.fields.repositoryId = "\"\""
    /\ request.body.fields.pullRequestId = "0"
    /\ response.detail = << "organizationUrl", "iterationId" >>

---------------------------------------------------------------------------
(* C31..C38 *)

\* Callback cb of job u has just run
CallbackRan(u, cb) == ran'[u] = Append(ran[u], cb)

\* The records that differ after the step
Changed == {i \in 1..Len(jobs) : i > Len(jobs') \/ jobs'[i] # jobs[i]}

\* C31: a step in which a timer callback of job u runs changes no record
\* but the one whose jobId is u, and no step changes more than one stored
\* record.
C31_CallbacksIsolated ==
    [][/\ Cardinality(Changed) <= 1
       /\ \A u \in UUIDs, cb \in {"processing", "terminal"} :
            CallbackRan(u, cb) => \A i \in Changed : jobs[i].jobId = u]_vars

\* C31: the callbacks of the first job have run while the second job,
\* stored after it, is as it was created.
C31_Witness ==
    /\ Len(jobs) = 2
    /\ jobs[1].status \in Terminal
    /\ Len(ran[jobs[1].jobId]) = 2
    /\ ran[jobs[2].jobId] = << >>
    /\ PendingSnapshot(jobs[2])

\* C33 as claimed: the first callback of a job runs only while the job is
\* pending and the second only while it is processing.
C33_CallbacksFindExpectedStatus ==
    [][\A u \in UUIDs :
          /\ CallbackRan(u, "processing") => GetJob(u).status = "pending"
          /\ CallbackRan(u, "terminal") => GetJob(u).status = "processing"]_vars

\* C34 as claimed: a pair that loadOrGenerateCert returns from the files
\* holds the key of the generate call that made its certificate.
C34_ReusedKeyBelongsToCertificate ==
    (served # Null /\ ~served[1].generated /\ material.returned # Null) =>
        material.returned[1].key = material.returned[1].cert

\* C35: with HTTP_ONLY set no step changes the certificate file or the key
\* file, loadOrGenerateCert is never called (so neither file is looked for
\* or read), and no pair is handed to a server.
C35_PlainHttpLeavesFilesAlone ==
    [][HTTP_ONLY =>
         /\ certFile' = certFile
         /\ keyFile' = keyFile
         /\ ~material'.managerRan
         /\ material'.returned = Null
         /\ served' = Null]_vars

\* C35: the plain-HTTP server has answered a request on a day on which the
\* certificate on disk has expired, after a restart, and the manager has
\* not run.
C35_Witness ==
    /\ HTTP_ONLY
    /\ phase = "listening"
    /\ response.status = 200
    /\ certFile.kind = "pem"
    /\ certFile.validTo < today
    /\ ~material.managerRan

\* A response without the two headers the variants may set differently
WithoutVariantHeaders(r) ==
    IF r.cors = << >> THEN r
    ELSE [r EXCEPT !.cors = << [r.cors[1] EXCEPT !.allowOrigin = "",
                                                 !.privateNetwork = Null] >>]

\* C32: each step of the TypeScript server is the step the JavaScript
\* variant takes from the same state on the same input: the same response
\* (status and body, and every header but the two named below), the same
\* suspension of a POST, the same record and timers on creation, and the
\* same store after a timer callback.  The Access-Control-Allow-Origin
\* values are equal unless the request has an Origin that is not
\* http://localhost with an optional port, and the private-network header
\* differs on preflights only.
C32_VariantsAgree ==
    [][/\ (HandlerStep /\ request'.body = Unread) =>
            /\ WithoutVariantHeaders(response')
                 = WithoutVariantHeaders(RespondJs(request'))
            /\ (reading' # reading) = SuspendsJs(request')
            /\ jobs' = jobs /\ timers' = timers
       /\ (HandlerStep /\ request'.body # Unread) =>
            /\ WithoutVariantHeaders(response')
                 = WithoutVariantHeaders(SettleJs(request', request'.body,
                                                  response'.jobId))
            /\ jobs' = (IF CreatesJs(request'.body)
                        THEN MapSet(jobs, JobJs(response'.jobId,
                                                readBody(request'.body).fields, now))
                        ELSE jobs)
            /\ timers' = (IF CreatesJs(request'.body)
                          THEN timers \o scheduleJobJs(response'.jobId)
                          ELSE timers)
       /\ (HandlerStep /\ response'.status # 0) =>
            LET js == IF request'.body = Unread THEN RespondJs(request')
                      ELSE SettleJs(request', request'.body, response'.jobId)
            IN  /\ (request'.origin = Null
                      \/ request'.origin[1] \in LocalhostOriginsJs) =>
                     response'.cors[1].allowOrigin = js.cors[1].allowOrigin
                /\ request'.method # "OPTIONS" =>
                     response'.cors[1].privateNetwork = js.cors[1].privateNetwork
       /\ \A u \in UUIDs, cb \in {"processing", "terminal"} :
            CallbackRan(u, cb) =>
                \E i \in 1..Len(timers) :
                    /\ timers[i].jobId = u /\ timers[i].cb = cb
                    /\ jobs' = AfterCallbackJs(timers[i])]_vars

\* C32: with one job terminal in the store, a second submission, sent from
\* an origin only the TypeScript variant allows, has been accepted with a
\* header value the JavaScript variant would not send.
C32_Witness ==
    /\ response.status = 202
    /\ Len(jobs) = 2
    /\ jobs[1].status \in Terminal
    /\ response.cors[1].allowOrigin
         # SettleJs(request, request.body, response.jobId).cors[1].allowOrigin

\* The loop body of pollReview has run on a status response
Received == client.pc = "answered" /\ client'.pc # "answered"

\* C36: on a status response pollReview returns the response's result only
\* when the status is completed and the result is not null, throws the
\* response's error, or the default message when there is none, when the
\* status is failed, and otherwise sleeps and polls again: a pending or
\* processing response never ends the call, and neither does a completed
\* response without a result.  Outside that step nothing is returned and
\* only the timeout is thrown.
C36_PollReviewOutcomes ==
    [][ /\ (Received /\ client.reply.http = 200) =>
            LET reply == client.reply
            IN  /\ (reply.status = "completed" /\ reply.result # Null) =>
                        /\ client'.pc = "done"
                        /\ client'.outcome = Returned(reply.result)
                /\ reply.status = "failed" =>
                        /\ client'.pc = "done"
                        /\ client'.outcome =
                             Thrown(IF reply.error = Null
                                    THEN "Review failed on the server."
                                    ELSE reply.error[1])
                /\ (\/ reply.status \in {"pending", "processing"}
                    \/ reply.status = "completed" /\ reply.result = Null) =>
                        /\ client'.pc = "sleeping"
                        /\ client'.outcome = Null
                        /\ client'.wake = now + POLL_INTERVAL_MS
        /\ (client'.outcome # client.outcome /\ ~Received) =>
                client'.outcome = TimedOut
      ]_vars

\* C36 witness: after an earlier poll, pollReview sleeps on a completed
\* response that has no result
C36_Witness ==
    /\ client.pc = "sleeping"
    /\ client.reply.status = "completed"
    /\ client.reply.result = Null
    /\ client.outcome = Null
    /\ now >= POLL_INTERVAL_MS


\* The second callback of the page's job has run on the server
JobSettled == HasJob(client.jobId) /\ Applied(client.jobId, "terminal") >= 1

\* What the server's mode makes of a job
ModeOutcome ==
    IF SIMULATE = "fail" THEN Thrown(MOCK_FAIL_ERROR)
    ELSE Returned(Some(MOCK_SUCCESS_RESULT))

\* The configured delay is one setTimeout takes as it is
DelayTaken == DELAY_MS.hi = 0 /\ DELAY_MS.ms >= 1

ItemsOf(repoId) ==
    {PrItem(PullRequestsOf(repoId)[k]) : k \in 1..Len(PullRequestsOf(repoId))}

\* C38: prCache holds, and the dropdown lists, only pull requests of the
\* repository prCacheRepoId names, whatever the order of the events and of
\* the ends of the getPullRequests calls.
C38_CacheHoldsOnlyItsRepository ==
    page.prCache # Null =>
        /\ \A k \in 1..Len(page.prCache[1]) :
              page.prCache[1][k] \in ItemsOf(page.prCacheRepoId[1])
        /\ \A k \in 1..Len(page.listed.items) :
              page.listed.items[k] \in ItemsOf(page.prCacheRepoId[1])

=========================================================================
